---- MODULE Spec2Model ----
(***************************************************************************)
(* A model of gql-to-yup (src/src/GQL2Yup.ts): the GQL2Yup constructor     *)
(* compiles a GraphQL type map into a registry of yup validators, and      *)
(* getEntity / validate are then called on the registry.                   *)
(*                                                                         *)
(* Strings are modelled as TLA+ strings, so endsWith, startsWith, slice    *)
(* and the error messages are computed character by character.  JavaScript *)
(* values are records [k, s, e, o]: the kind, a scalar's text, an array's  *)
(* elements, an object's properties.  A yup schema is a record of one      *)
(* shape (Schema); the yup operations used by the source are modelled by   *)
(* what yup 0.28/0.29 (the versions of the repository's time) does on the  *)
(* values of the model.                                                    *)
(***************************************************************************)
EXTENDS Integers, Sequences, FiniteSets, TLC

VARIABLES typeMap, excludeFields, pc, objects, unions, enums, _entities,
          writes, thrown, last, typeRef, argType

vars == <<typeMap, excludeFields, pc, objects, unions, enums, _entities,
          writes, thrown, last, typeRef, argType>>

\* The argument and the result of a call of _argType on its own.
argVars == <<typeRef, argType>>

(***************************************************************************)
(* Bounds of the model.                                                    *)
(***************************************************************************)
\* The number of user-defined types of a schema.
MaxTypes == 3

\* The number of list and non-null wrappers round the name of a type reference.
MaxWrap == 3

(***************************************************************************)
(* JavaScript strings.                                                     *)
(***************************************************************************)
endsWith(t, c) == Len(t) >= Len(c) /\ SubSeq(t, Len(t) - Len(c) + 1, Len(t)) = c

startsWith(t, c) == Len(t) >= Len(c) /\ SubSeq(t, 1, Len(c)) = c

\* t.slice(0, -1)
sliceLast(t) == IF Len(t) <= 1 THEN "" ELSE SubSeq(t, 1, Len(t) - 1)

\* t.slice(1, -1)
sliceBoth(t) == IF Len(t) <= 2 THEN "" ELSE SubSeq(t, 2, Len(t) - 1)

includes(list, x) == \E i \in 1..Len(list) : list[i] = x

lowerChar(c) ==
  CASE c = "A" -> "a" [] c = "B" -> "b" [] c = "C" -> "c" [] c = "D" -> "d"
    [] c = "E" -> "e" [] c = "F" -> "f" [] c = "G" -> "g" [] c = "H" -> "h"
    [] c = "I" -> "i" [] c = "J" -> "j" [] c = "K" -> "k" [] c = "L" -> "l"
    [] c = "M" -> "m" [] c = "N" -> "n" [] c = "O" -> "o" [] c = "P" -> "p"
    [] c = "Q" -> "q" [] c = "R" -> "r" [] c = "S" -> "s" [] c = "T" -> "t"
    [] c = "U" -> "u" [] c = "V" -> "v" [] c = "W" -> "w" [] c = "X" -> "x"
    [] c = "Y" -> "y" [] c = "Z" -> "z" [] OTHER -> c

RECURSIVE toLowerCase(_)
toLowerCase(t) ==
  IF t = "" THEN ""
  ELSE lowerChar(SubSeq(t, 1, 1)) \o toLowerCase(SubSeq(t, 2, Len(t)))

RECURSIVE join(_, _)
\* list.join(sep)
join(list, sep) ==
  IF Len(list) = 0 THEN ""
  ELSE IF Len(list) = 1 THEN list[1]
  ELSE list[1] \o sep \o join(Tail(list), sep)

isDigit(c) == c \in {"0", "1", "2", "3", "4", "5", "6", "7", "8", "9"}

RECURSIVE digitPrefix(_)
digitPrefix(t) ==
  IF t = "" \/ ~isDigit(SubSeq(t, 1, 1)) THEN ""
  ELSE SubSeq(t, 1, 1) \o digitPrefix(SubSeq(t, 2, Len(t)))

(***************************************************************************)
(* JavaScript values.                                                      *)
(***************************************************************************)
NoProps == [x \in {} |-> 0]

Undefined == [k |-> "undefined", s |-> "", e |-> <<>>, o |-> NoProps]
Null == [k |-> "null", s |-> "", e |-> <<>>, o |-> NoProps]
Str(t) == [k |-> "string", s |-> t, e |-> <<>>, o |-> NoProps]
\* A number, by its decimal text; NaN is Num("NaN").
Num(t) == [k |-> "number", s |-> t, e |-> <<>>, o |-> NoProps]
Bool(t) == [k |-> "boolean", s |-> t, e |-> <<>>, o |-> NoProps]
\* A native Date instance.
DateObj == [k |-> "date", s |-> "", e |-> <<>>, o |-> NoProps]
Arr(items) == [k |-> "array", s |-> "", e |-> items, o |-> NoProps]
Obj(props) == [k |-> "object", s |-> "", e |-> <<>>, o |-> props]
\* Not a value: the evaluation threw a (non-validation) TypeError.
Thrown == [k |-> "throw", s |-> "TypeError", e |-> <<>>, o |-> NoProps]

\* value[prop]
Get(v, prop) == IF prop \in DOMAIN v.o THEN v.o[prop] ELSE Undefined

\* !value
Falsy(v) ==
  \/ v.k \in {"undefined", "null"}
  \/ v.k = "string" /\ v.s = ""
  \/ v.k = "number" /\ v.s \in {"0", "NaN"}
  \/ v.k = "boolean" /\ v.s = "false"

RECURSIVE ToStringJS(_)
\* String(value), value.toString()
ToStringJS(v) ==
  CASE v.k \in {"string", "number", "boolean"} -> v.s
    [] v.k = "undefined" -> "undefined"
    [] v.k = "null" -> "null"
    [] v.k = "date" -> "Sat Aug 01 2020 00:00:00 GMT+0000"
    [] v.k = "array" ->
         join([i \in 1..Len(v.e) |->
                 IF v.e[i].k \in {"undefined", "null"} THEN ""
                 ELSE ToStringJS(v.e[i])], ",")
    [] OTHER -> "[object Object]"

\* Number(text) on a string of the model (no sign, blank or fraction occurs).
StrToNum(t) ==
  IF t # "" /\ digitPrefix(t) = t THEN Num(t) ELSE Num("NaN")

\* parseFloat(text): the longest numeric prefix.
ParseFloat(t) ==
  IF digitPrefix(t) = "" THEN Num("NaN") ELSE Num(digitPrefix(t))

\* The properties of a value that are not undefined, all the way down: what
\* a deep comparison (jest's toEqual) looks at.
RECURSIVE Norm(_)
Norm(v) ==
  CASE v.k = "object" ->
         Obj([p \in {q \in DOMAIN v.o : v.o[q].k # "undefined"} |-> Norm(v.o[p])])
    [] v.k = "array" -> Arr([i \in 1..Len(v.e) |-> Norm(v.e[i])])
    [] OTHER -> v

(***************************************************************************)
(* yup schemas.  One record shape for every schema:                        *)
(*   kind      mixed, string, number, boolean, object, array, lazy         *)
(*   nullable  .nullable(b)                                                *)
(*   tests     the tests added by .required() and .test(), in order        *)
(*   whitelist .oneOf(values);  label  .label(text)                        *)
(*   fields    an object's shape, a sequence of [name, schema]             *)
(*   of        an array's element schema (a sequence of 0 or 1 schema)     *)
(*   types     the member schemas a union's test closes over               *)
(*   type, isArray   what a lazy schema's builder closes over              *)
(***************************************************************************)
Schema(kind) ==
  [kind |-> kind, nullable |-> FALSE, tests |-> <<>>, whitelist |-> <<>>,
   label |-> "", fields |-> <<>>, of |-> <<>>, types |-> <<>>,
   type |-> "", isArray |-> FALSE]

\* What is found where no schema is: undefined, or an inherited property.
NotASchema == Schema("none")

isSchema(s) == s.kind # "none"

yup_mixed == Schema("mixed")

yup_object_shape(fields) == [Schema("object") EXCEPT !.fields = fields]

yup_array_of(base) == [Schema("array") EXCEPT !.of = <<base>>]

yup_lazy(type, isArray) == [Schema("lazy") EXCEPT !.type = type, !.isArray = isArray]

required(s) ==
  [s EXCEPT !.tests = Append(@, [name |-> "required", message |-> " is a required field"])]

test(s, name, message) ==
  [s EXCEPT !.tests = Append(@, [name |-> name, message |-> message])]

nullable(s, b) == [s EXCEPT !.nullable = b]

oneOf(s, values) == [s EXCEPT !.whitelist = values]

label(s, text) == [s EXCEPT !.label = text]

(***************************************************************************)
(* The schema's types, as graphql-js hands them over.                      *)
(***************************************************************************)
Fld(n, t) == [name |-> n, type |-> t]

TypeDesc(name, kind, astKind, fields, types, values) ==
  [name |-> name, kind |-> kind, astKind |-> astKind, fields |-> fields,
   types |-> types, values |-> values]

ObjT(name, fields) == TypeDesc(name, "object", "ObjectTypeDefinition", fields, <<>>, <<>>)
UnionT(name, types) == TypeDesc(name, "union", "UnionTypeDefinition", <<>>, types, <<>>)
EnumT(name, values) == TypeDesc(name, "enum", "EnumTypeDefinition", <<>>, <<>>, values)

ScalarT(name, astKind) == TypeDesc(name, "scalar", astKind, <<>>, <<>>, <<>>)

\* What graphql-js adds to every type map: the scalars of introspection and
\* the introspection types, none of which has an AST node.
Builtins ==
  << ScalarT("String", ""),
     ScalarT("Boolean", ""),
     TypeDesc("__Type", "object", "", <<Fld("name", "String")>>, <<>>, <<>>),
     TypeDesc("__TypeKind", "enum", "", <<>>, <<>>, <<"SCALAR", "OBJECT">>) >>

\* (t as GraphQLObjectType).getFields: object, interface and input types.
hasGetFields(t) == t.kind \in {"object", "interface", "input"}

\* (t as GraphQLUnionType).toConfig().types
hasConfigTypes(t) == t.kind = "union"

(***************************************************************************)
(* GQL2Yup.                                                                *)
(***************************************************************************)
DEFAULT_TYPES ==
  <<"Query", "Mutation", "String", "Int", "Float", "DateTime", "Boolean">>

\* Object.prototype, which the registry literal {} inherits from.
ObjectPrototype == {"constructor", "toString", "valueOf", "hasOwnProperty"}

isEnumType(t) == t.astKind = "EnumTypeDefinition"

isObjectType(t) ==
  /\ ~includes(DEFAULT_TYPES, t.name)
  /\ ~startsWith(t.name, "__")
  /\ hasGetFields(t)

isUnionType(t) ==
  /\ ~includes(DEFAULT_TYPES, t.name)
  /\ ~startsWith(t.name, "__")
  /\ hasConfigTypes(t)

_parse(types) ==
  [enums |-> SelectSeq(types, isEnumType),
   objects |-> SelectSeq(types, isObjectType),
   unions |-> SelectSeq(types, isUnionType)]

NoArgType == [defined |-> FALSE, type |-> "", isArray |-> FALSE,
              isRequired |-> FALSE, isUnknown |-> FALSE]

\* _argType without the second removal of a bang.
_argType_NoSecondBang(type) ==
  IF type = "" THEN NoArgType
  ELSE
    LET isRequired == endsWith(type, "!")
        t1 == IF isRequired THEN sliceLast(type) ELSE type
        isArray == startsWith(t1, "[")
        t2 == IF isArray THEN sliceBoth(t1) ELSE t1
    IN CASE t2 \in {"Int", "Float"} ->
              [defined |-> TRUE, type |-> "number", isArray |-> isArray,
               isRequired |-> isRequired, isUnknown |-> FALSE]
         [] t2 \in {"Date", "DateTime"} ->
              [defined |-> TRUE, type |-> "Date", isArray |-> isArray,
               isRequired |-> isRequired, isUnknown |-> FALSE]
         [] t2 \in {"String", "Boolean", "Number"} ->
              [defined |-> TRUE, type |-> toLowerCase(t2), isArray |-> isArray,
               isRequired |-> isRequired, isUnknown |-> FALSE]
         [] OTHER ->
              [defined |-> TRUE, type |-> t2, isArray |-> isArray,
               isRequired |-> isRequired, isUnknown |-> TRUE]

\* The argument "" stands for '' and for undefined alike: !type holds of both.
_argType(type) ==
  IF type = "" THEN NoArgType
  ELSE
    LET isRequired == endsWith(type, "!")
        t1 == IF isRequired THEN sliceLast(type) ELSE type
        isArray == startsWith(t1, "[")
        t2 == IF isArray THEN sliceBoth(t1) ELSE t1
        t3 == IF endsWith(t2, "!") THEN sliceLast(t2) ELSE t2
    IN CASE t3 \in {"Int", "Float"} ->
              [defined |-> TRUE, type |-> "number", isArray |-> isArray,
               isRequired |-> isRequired, isUnknown |-> FALSE]
         [] t3 \in {"Date", "DateTime"} ->
              [defined |-> TRUE, type |-> "Date", isArray |-> isArray,
               isRequired |-> isRequired, isUnknown |-> FALSE]
         [] t3 \in {"String", "Boolean", "Number"} ->
              [defined |-> TRUE, type |-> toLowerCase(t3), isArray |-> isArray,
               isRequired |-> isRequired, isUnknown |-> FALSE]
         [] OTHER ->
              [defined |-> TRUE, type |-> t3, isArray |-> isArray,
               isRequired |-> isRequired, isUnknown |-> TRUE]

\* The date field's schema: mixed(), required() first when the field is
\* required, then the 'Valid date' test.
dateSchema(isRequired) ==
  test(IF isRequired THEN required(yup_mixed) ELSE yup_mixed,
       "Valid date", "Invalid date format")

\* The schema before the nullable and array wrapping, and whether it is lazy.
fieldBase(a) ==
  CASE a.type \in {"boolean", "number", "string"} ->
         [lazy |-> FALSE, base |-> Schema(toLowerCase(a.type))]
    [] a.type \in {"Date", "DateTime"} ->
         [lazy |-> FALSE, base |-> dateSchema(a.isRequired)]
    [] OTHER ->
         [lazy |-> TRUE, base |-> yup_lazy(a.type, a.isArray)]

_fieldToYup(field) ==
  LET a == _argType(field.type)
      b == fieldBase(a)
      base1 == IF ~b.lazy THEN nullable(b.base, ~a.isRequired) ELSE b.base
      base2 == IF a.isArray THEN yup_array_of(base1) ELSE base1
  IN [name |-> field.name, schema |-> base2]

\* The exclude test with the entity of a qualified rule left unread: "E.f"
\* excludes f everywhere.
isExcluded_AnyEntity(exclude, otName, fName) ==
  \/ \E i \in 1..Len(exclude) : endsWith(exclude[i], "." \o fName)
  \/ includes(exclude, fName)

\* The exclude test of the objects loop.
isExcluded(exclude, otName, fName) ==
  includes(exclude, otName \o "." \o fName) \/ includes(exclude, fName)

\* The reduce of the objects loop: the shape of one object type.
objectShape(ot, exclude) ==
  LET keep(f) == ~isExcluded(exclude, ot.name, f.name)
      kept == SelectSeq(ot.fields, keep)
  IN [i \in 1..Len(kept) |-> _fieldToYup(kept[i])]

objectEntity(ot, exclude) == yup_object_shape(objectShape(ot, exclude))

\* this._entities[name]: an own property, else what Object.prototype holds
\* under that name (a function, which is no schema), else undefined.
Lookup(ents, name) ==
  IF name \in DOMAIN ents THEN ents[name] ELSE NotASchema

\* !e in getEntity: undefined is falsy, an inherited function is not.
isTruthyEntry(ents, name) ==
  name \in DOMAIN ents \/ name \in ObjectPrototype

NoEntityMessage(name) == "GQL2Yup: No entity '" \o name \o "'"

\* getEntity(name): the entry, or the error thrown.
getEntity(ents, name) ==
  IF ~isTruthyEntry(ents, name)
  THEN [ok |-> FALSE, error |-> NoEntityMessage(name), schema |-> NotASchema]
  ELSE [ok |-> TRUE, error |-> "", schema |-> Lookup(ents, name)]

unionMessage(t) == "Was not one of " \o join(t.types, ", ")

\* The union's schema, given the member entities getEntity returned.
unionEntity(t, ents) ==
  [test(yup_mixed, "oneof", unionMessage(t)) EXCEPT
     !.types = [i \in 1..Len(t.types) |-> getEntity(ents, t.types[i]).schema]]

\* The enum's schema without its label.
enumEntity_NoLabel(e) == oneOf(yup_mixed, e.values)

enumEntity(e) == label(oneOf(yup_mixed, e.values), "Enum " \o e.name)

Put(ents, name, s) ==
  [n \in DOMAIN ents \cup {name} |-> IF n = name THEN s ELSE ents[n]]

(***************************************************************************)
(* Validation, as yup runs it: the value is cast, then the schema's type   *)
(* check, its whitelist and its tests run, then (object, array) the        *)
(* children are validated.  Errs is the set of errors validate can reject  *)
(* with; it is empty exactly when validate resolves.                       *)
(***************************************************************************)
\* moment(text, _dateFormats): "valid" when the text parses under one of the
\* four formats, "invalid" when it parses under none.  "throws" stands for a
\* text on which the parser raises, the case the catch of the date test is
\* written for; ParserThrowsText is a stand-in for such a text.
ParserThrowsText == "(parser raises)"

MomentParse(t) ==
  CASE t \in {"20200801", "2020-08-01"} -> "valid"
    [] t = ParserThrowsText -> "throws"
    [] OTHER -> "invalid"

\* The date test without its instanceof Date line: a Date is no string.
DateTest_NoInstanceOf(v) ==
  IF v.k \in {"undefined", "null"} THEN TRUE
  ELSE IF v.k # "string" THEN FALSE
  ELSE MomentParse(v.s) = "valid"

\* The test function of the 'Valid date' test.
DateTest(v) ==
  IF v.k \in {"undefined", "null"} THEN TRUE
  ELSE IF v.k = "date" THEN TRUE
  ELSE IF v.k # "string" THEN FALSE
  ELSE MomentParse(v.s) = "valid"

\* schema._typeCheck(v)
typeCheck(s, v) ==
  CASE s.kind = "string" -> v.k = "string"
    [] s.kind = "number" -> v.k = "number" /\ v.s # "NaN"
    [] s.kind = "boolean" -> v.k = "boolean"
    [] s.kind = "array" -> v.k = "array"
    [] s.kind = "object" -> v.k = "object"
    [] OTHER -> TRUE

\* schema.isType(v)
isType(s, v) == (s.nullable /\ v.k = "null") \/ typeCheck(s, v)

\* The builder of a lazy schema: the registry is read when validation runs.
Resolve(s, ents) ==
  LET e == Lookup(ents, s.type)
  IN IF ~isSchema(e) THEN NotASchema
     ELSE IF s.isArray THEN required(e)
     ELSE e

RECURSIVE Cast(_, _, _)
\* schema.cast(v): the value validation runs on, or Thrown.
Cast(s, v, ents) ==
  CASE v.k = "throw" -> v
    [] s.kind = "lazy" ->
         IF isSchema(Resolve(s, ents)) THEN Cast(Resolve(s, ents), v, ents)
         ELSE Thrown
    [] v.k = "undefined" ->
         IF s.kind = "object" /\ s.fields # <<>> THEN Obj(NoProps) ELSE v
    [] s.kind = "string" ->
         IF isType(s, v) \/ v.k = "null" THEN v ELSE Str(ToStringJS(v))
    [] s.kind = "number" ->
         LET parsed == IF v.k = "string" THEN StrToNum(v.s) ELSE v
         IN IF isType(s, parsed) THEN parsed ELSE ParseFloat(ToStringJS(parsed))
    [] s.kind = "boolean" ->
         IF isType(s, v) THEN v
         ELSE IF toLowerCase(ToStringJS(v)) \in {"true", "1"} THEN Bool("true")
         ELSE IF toLowerCase(ToStringJS(v)) \in {"false", "0"} THEN Bool("false")
         ELSE v
    [] s.kind = "array" ->
         IF v.k # "array" THEN Null
         ELSE IF s.of = <<>> THEN v
         ELSE LET items == [i \in 1..Len(v.e) |-> Cast(s.of[1], v.e[i], ents)]
              IN IF \E i \in 1..Len(items) : items[i].k = "throw" THEN Thrown
                 ELSE Arr(items)
    [] s.kind = "object" ->
         IF v.k # "object" THEN Null
         ELSE LET names == {s.fields[i].name : i \in 1..Len(s.fields)}
                  sub(n) == (CHOOSE i \in 1..Len(s.fields) : s.fields[i].name = n)
                  cast == [n \in names |-> Cast(s.fields[sub(n)].schema, Get(v, n), ents)]
                  keep == {n \in names : cast[n].k # "undefined"} \cup (DOMAIN v.o \ names)
              IN IF \E n \in names : cast[n].k = "throw" THEN Thrown
                 ELSE Obj([n \in keep |-> IF n \in names THEN cast[n] ELSE v.o[n]])
    [] OTHER -> v

\* schema._isPresent(v), the test of required()
isPresent(s, v) ==
  /\ v.k \notin {"undefined", "null"}
  /\ s.kind = "string" => v.s # ""
  /\ s.kind = "array" => Len(v.e) > 0

ValidationError(message) == [name |-> "ValidationError", message |-> message]

TypeError == [name |-> "TypeError", message |-> ""]

\* ${path} of a message: the label, else the path, else 'this'.
pathLabel(s, path) ==
  IF s.label # "" THEN s.label ELSE IF path = "" THEN "this" ELSE path

\* The start of yup's type error message, without the quotes it puts round
\* the type; the rest of it names the value.
typeErrorMessage(s, path) == pathLabel(s, path) \o " must be a " \o s.kind \o " type"

oneOfMessage(s, path) ==
  pathLabel(s, path) \o " must be one of the following values: " \o join(s.whitelist, ", ")

testMessage(s, t, path) ==
  IF t.name = "required" THEN pathLabel(s, path) \o t.message ELSE t.message

fieldPath(path, name) == IF path = "" THEN name ELSE path \o "." \o name

itemPath(path, i) ==
  path \o "[" \o <<"0", "1", "2", "3", "4", "5", "6", "7", "8", "9">>[i] \o "]"

\* res.every(r => r) in the place of res.find(r => r).
someAccepts_Every(res) == \A i \in 1..Len(res) : res[i]

\* res.find(r => r) of the union's test: some member resolved.
someAccepts(res) == \E i \in 1..Len(res) : res[i]

RECURSIVE Errs(_, _, _, _)
\* The errors schema.validate rejects with, on a value already cast.
Errs(s, v, path, ents) ==
  LET \* The union's test: the members validate the value afresh, and a
      \* member's rejection, of whatever kind, is caught.
      memberResolves(t) ==
        LET c == Cast(t, v, ents)
        IN c.k # "throw" /\ Errs(t, c, "", ents) = {}
      passes(t) ==
        CASE t.name = "required" -> isPresent(s, v)
          [] t.name = "Valid date" -> DateTest(v)
          [] t.name = "oneof" ->
               IF Falsy(v) THEN FALSE
               ELSE someAccepts([i \in 1..Len(s.types) |-> memberResolves(s.types[i])])
          [] OTHER -> TRUE
      failed == {i \in 1..Len(s.tests) : ~passes(s.tests[i])}
      fields == UNION {Errs(s.fields[i].schema, Get(v, s.fields[i].name),
                            fieldPath(path, s.fields[i].name), ents) :
                         i \in 1..Len(s.fields)}
      items == UNION {Errs(s.of[1], v.e[i], itemPath(path, i), ents) :
                        i \in 1..Len(v.e)}
  IN CASE s.kind = "lazy" ->
            IF isSchema(Resolve(s, ents)) THEN Errs(Resolve(s, ents), v, path, ents)
            ELSE {TypeError}
       [] v.k # "undefined" /\ ~isType(s, v) ->
            {ValidationError(typeErrorMessage(s, path))}
       [] /\ s.whitelist # <<>>
          /\ v.k # "undefined"
          /\ ~(v.k = "string" /\ includes(s.whitelist, v.s)) ->
            {ValidationError(oneOfMessage(s, path))}
       [] failed # {} ->
            {ValidationError(testMessage(s, s.tests[i], path)) : i \in failed}
       [] s.kind = "object" /\ v.k = "object" -> fields
       [] s.kind = "array" /\ v.k = "array" /\ s.of # <<>> -> items
       [] OTHER -> {}

\* entity.validate(v): the errors it can reject with, and the value it
\* resolves with when there is none.
Validate(s, v, ents) ==
  LET c == Cast(s, v, ents)
  IN IF c.k = "throw" THEN [errors |-> {TypeError}, value |-> Undefined]
     ELSE [errors |-> Errs(s, c, "", ents),
           value |-> IF Errs(s, c, "", ents) = {} THEN c ELSE Undefined]

(***************************************************************************)
(* The inputs: the schemas, the exclude lists and the candidate values.    *)
(***************************************************************************)
\* The types of the one field of type Test.
TestTypes ==
  <<"String", "String!", "Int!", "Date", "Date!", "DateTime", "[String]",
    "[String!]!", "[Date!]!", "Custom", "Custom!", "[Custom]", "[Custom!]!", "ID",
    "[ID]", "Test", "[Test]", "Color">>

\* The user-defined types a schema is made of: one alternative of some of
\* the slots, in this order (enums and unions before the objects they name).
Pool ==
  << {EnumT("Color", <<"red", "blue">>)},
     {EnumT("DateTime", <<"A", "B">>)},
     {UnionT("Offer", <<"Custom", "Test">>)},
     {UnionT("Search", <<"Query", "Custom">>)},
     {UnionT("Mutation", <<"Custom">>)},
     {ObjT("Query", <<Fld("test", "String")>>)},
     {ObjT("Foo", <<Fld("test", "String!"), Fld("bar", "String")>>)},
     {ObjT("Custom", <<Fld("foo", "String!")>>),
      ObjT("Custom", <<Fld("foo", "String!"), Fld("test", "Test")>>)},
     {ObjT("Test", <<Fld("test", TestTypes[i])>>) : i \in 1..Len(TestTypes)} >>

\* The named type of a type reference: [T!]! is T.
RECURSIVE namedType(_)
namedType(t) ==
  IF endsWith(t, "!") THEN namedType(sliceLast(t))
  ELSE IF startsWith(t, "[") THEN namedType(sliceBoth(t))
  ELSE t

\* The names a type refers to: a union's members, the types of its fields.
refs(t) ==
  {t.types[i] : i \in 1..Len(t.types)} \cup
  {namedType(t.fields[i].type) : i \in 1..Len(t.fields)}

hasType(types, n) == \E j \in 1..Len(types) : types[j].name = n

\* The scalars a list of types refers to and does not define: the specified
\* ones graphql-js supplies, the others declared (scalar Date).
scalarsOf(types) ==
  LET used(n) == /\ \E i \in 1..Len(types) : n \in refs(types[i])
                 /\ ~hasType(types \o Builtins, n)
  IN (IF used("Int") THEN <<ScalarT("Int", "")>> ELSE <<>>) \o
     (IF used("ID") THEN <<ScalarT("ID", "")>> ELSE <<>>) \o
     (IF used("Date") THEN <<ScalarT("Date", "ScalarTypeDefinition")>> ELSE <<>>) \o
     (IF used("DateTime") THEN <<ScalarT("DateTime", "ScalarTypeDefinition")>> ELSE <<>>)

\* The type map of the schema with these user-defined types.
typeMapOf(types) == types \o scalarsOf(types) \o Builtins

\* graphql-js builds a schema only when every name it refers to is a type.
isClosed(types) ==
  \A i \in 1..Len(types) : \A n \in refs(types[i]) : hasType(types, n)

RECURSIVE TypeLists(_, _)
\* The lists of at most k types, one alternative of some of the slots from
\* slot i on, in slot order.
TypeLists(i, k) ==
  IF i > Len(Pool) \/ k = 0 THEN {<<>>}
  ELSE TypeLists(i + 1, k) \cup
       {<<t>> \o rest : t \in Pool[i], rest \in TypeLists(i + 1, k - 1)}

Schemas ==
  {typeMapOf(u) : u \in {x \in TypeLists(1, MaxTypes) : isClosed(typeMapOf(x))}}

ExcludeLists == {<<>>, <<"test">>, <<"Foo.test">>, <<"Test.test">>, <<"Foo">>, <<"Foo.test", "bar">>}

\* The names getEntity is asked for.
Names ==
  {"Color", "DateTime", "Offer", "Search", "Mutation", "Query", "Foo", "Custom",
   "Test", "String", "__Type", "__TypeKind", "Missing", "constructor"}

P1(n, v) == Obj([x \in {n} |-> v])
P2(n, v, m, w) == Obj([x \in {n, m} |-> IF x = n THEN v ELSE w])

\* The values a field is given.
FieldValues ==
  << Undefined, Null, Str("some date"), Str("20200801"), Str(""),
     Str(ParserThrowsText), Num("123"), Num("0"), Bool("true"), Bool("false"),
     DateObj, Arr(<<>>), Arr(<<Str("a")>>), Arr(<<Null>>),
     Arr(<<P1("foo", Str("a"))>>), Obj(NoProps), P1("foo", Str("a")),
     P1("foo", Null) >>

\* The values an entity is asked to validate.
Candidates ==
  FieldValues \o [i \in 1..Len(FieldValues) |-> P1("test", FieldValues[i])] \o
  << Str("red"), Str("wrong"), P2("test", Str("a"), "bar", Null),
     P2("test", Str("a"), "foo", Str("a")) >>

(***************************************************************************)
(* The state machine.  pc is "parse" before the constructor has read the   *)
(* schema, "construct" while its three loops run, "ready" once it has      *)
(* returned and "threw" when it has thrown.  writes is the history of the  *)
(* registry's writes; last is the public call in progress with its         *)
(* outcome, and NoCall between two calls.                                  *)
(***************************************************************************)
NoError == [name |-> "", message |-> ""]

NoCall ==
  [op |-> "", name |-> "", arg |-> Undefined, ok |-> TRUE, error |-> NoError,
   value |-> Undefined, schema |-> NotASchema]

Init ==
  /\ typeMap \in Schemas
  /\ excludeFields \in ExcludeLists
  /\ pc = "parse"
  /\ objects = <<>>
  /\ unions = <<>>
  /\ enums = <<>>
  /\ _entities = [n \in {} |-> NotASchema]
  /\ writes = <<>>
  /\ thrown = ""
  /\ last = NoCall
  /\ typeRef = ""
  /\ argType = NoArgType

\* const { objects, unions, enums } = this._parse(schemaOrString)
Parse ==
  /\ pc = "parse"
  /\ objects' = _parse(typeMap).objects
  /\ unions' = _parse(typeMap).unions
  /\ enums' = _parse(typeMap).enums
  /\ pc' = "construct"
  /\ UNCHANGED <<typeMap, excludeFields, _entities, writes, thrown, last>>
  /\ UNCHANGED argVars

\* One turn of objects.forEach
CompileObject ==
  /\ pc = "construct"
  /\ objects # <<>>
  /\ _entities' = Put(_entities, Head(objects).name, objectEntity(Head(objects), excludeFields))
  /\ writes' = Append(writes, [name |-> Head(objects).name, kind |-> "object"])
  /\ objects' = Tail(objects)
  /\ UNCHANGED <<typeMap, excludeFields, pc, unions, enums, thrown, last>>
  /\ UNCHANGED argVars

\* The first member of a union getEntity throws for, 0 when there is none.
firstMissing(t, ents) ==
  LET bad == {i \in 1..Len(t.types) : ~getEntity(ents, t.types[i]).ok}
  IN IF bad = {} THEN 0 ELSE CHOOSE i \in bad : \A j \in bad : i <= j

\* One turn of unions.forEach: the members are looked up, and the
\* constructor throws what getEntity throws.
CompileUnion ==
  /\ pc = "construct"
  /\ objects = <<>>
  /\ unions # <<>>
  /\ LET t == Head(unions)
         m == firstMissing(t, _entities)
     IN IF m # 0
        THEN /\ pc' = "threw"
             /\ thrown' = getEntity(_entities, t.types[m]).error
             /\ UNCHANGED <<unions, _entities, writes>>
        ELSE /\ _entities' = Put(_entities, t.name, unionEntity(t, _entities))
             /\ writes' = Append(writes, [name |-> t.name, kind |-> "union"])
             /\ unions' = Tail(unions)
             /\ UNCHANGED <<pc, thrown>>
  /\ UNCHANGED <<typeMap, excludeFields, objects, enums, last>>
  /\ UNCHANGED argVars

\* One turn of enums.forEach
CompileEnum ==
  /\ pc = "construct"
  /\ objects = <<>>
  /\ unions = <<>>
  /\ enums # <<>>
  /\ _entities' = Put(_entities, Head(enums).name, enumEntity(Head(enums)))
  /\ writes' = Append(writes, [name |-> Head(enums).name, kind |-> "enum"])
  /\ enums' = Tail(enums)
  /\ UNCHANGED <<typeMap, excludeFields, pc, objects, unions, thrown, last>>
  /\ UNCHANGED argVars

\* The constructor returns.
Constructed ==
  /\ pc = "construct"
  /\ objects = <<>>
  /\ unions = <<>>
  /\ enums = <<>>
  /\ pc' = "ready"
  /\ UNCHANGED <<typeMap, excludeFields, objects, unions, enums, _entities,
                 writes, thrown, last>>
  /\ UNCHANGED argVars

\* gql2yup.getEntity(name)
GetEntity ==
  /\ pc = "ready"
  /\ last = NoCall
  /\ \E name \in Names :
       LET r == getEntity(_entities, name)
       IN last' = [NoCall EXCEPT !.op = "getEntity", !.name = name, !.ok = r.ok,
                     !.error = [name |-> IF r.ok THEN "" ELSE "Error", message |-> r.error],
                     !.schema = r.schema]
  /\ UNCHANGED <<typeMap, excludeFields, pc, objects, unions, enums, _entities,
                 writes, thrown>>
  /\ UNCHANGED argVars

\* gql2yup.getEntity(name).validate(value)
ValidateEntity ==
  /\ pc = "ready"
  /\ last = NoCall
  /\ \E name \in DOMAIN _entities, i \in 1..Len(Candidates) :
       LET r == Validate(_entities[name], Candidates[i], _entities)
       IN \/ /\ r.errors = {}
             /\ last' = [NoCall EXCEPT !.op = "validate", !.name = name,
                           !.arg = Candidates[i], !.value = r.value]
          \/ \E err \in r.errors :
               last' = [NoCall EXCEPT !.op = "validate", !.name = name,
                          !.arg = Candidates[i], !.ok = FALSE, !.error = err]
  /\ UNCHANGED <<typeMap, excludeFields, pc, objects, unions, enums, _entities,
                 writes, thrown>>
  /\ UNCHANGED argVars

\* The caller has taken the outcome of its call.
Return ==
  /\ pc = "ready"
  /\ last # NoCall
  /\ last' = NoCall
  /\ UNCHANGED <<typeMap, excludeFields, pc, objects, unions, enums, _entities,
                 writes, thrown>>
  /\ UNCHANGED argVars

Next ==
  \/ Parse
  \/ CompileObject
  \/ CompileUnion
  \/ CompileEnum
  \/ Constructed
  \/ GetEntity
  \/ ValidateEntity
  \/ Return

Spec == Init /\ [][Next]_vars

(***************************************************************************)
(* _argType on its own: the type references field.type.toString() can     *)
(* give, and the empty argument.  pc is "_argType" when the call is made   *)
(* and "returned" when argType holds what it returned.                     *)
(***************************************************************************)
\* The names of types: those of the switch, other spellings of them, and
\* names of other scalars and of user-defined types.
TypeNames ==
  {"Int", "Float", "Date", "DateTime", "String", "Boolean", "Number",
   "string", "STRING", "boolean", "number", "int", "date", "ID", "Custom", "Test"}

RECURSIVE TypeRefs(_)
\* The type references with at most k wrappers: T, T! and [T].
TypeRefs(k) ==
  IF k = 0 THEN TypeNames
  ELSE TypeRefs(k - 1)
       \cup {t \o "!" : t \in {u \in TypeRefs(k - 1) : ~endsWith(u, "!")}}
       \cup {"[" \o t \o "]" : t \in TypeRefs(k - 1)}

InitArgType ==
  /\ typeRef \in TypeRefs(MaxWrap) \cup {""}
  /\ argType = NoArgType
  /\ pc = "_argType"
  /\ typeMap = <<>>
  /\ excludeFields = <<>>
  /\ objects = <<>>
  /\ unions = <<>>
  /\ enums = <<>>
  /\ _entities = [n \in {} |-> NotASchema]
  /\ writes = <<>>
  /\ thrown = ""
  /\ last = NoCall

\* this._argType(type)
ArgType ==
  /\ pc = "_argType"
  /\ argType' = _argType(typeRef)
  /\ pc' = "returned"
  /\ UNCHANGED <<typeRef, typeMap, excludeFields, objects, unions, enums,
                 _entities, writes, thrown, last>>

NextArgType == ArgType

SpecArgType == InitArgType /\ [][NextArgType]_vars

(***************************************************************************)
(* What the claims speak of.                                               *)
(***************************************************************************)
\* The type of the schema with this name.
typeOf(n) == typeMap[CHOOSE i \in 1..Len(typeMap) : typeMap[i].name = n]

\* n is an entity compiled from a type of this kind.
isEntityOf(kind, n) ==
  /\ n \in DOMAIN _entities
  /\ \E i \in 1..Len(writes) : writes[i].name = n /\ writes[i].kind = kind

\* The compiled shape of entity n has a field f.
inShape(n, f) ==
  \E i \in 1..Len(_entities[n].fields) : _entities[n].fields[i].name = f

\* The instance gives every field of entity n other than f a value that field accepts.
othersValid(n, f, inst) ==
  \A i \in 1..Len(_entities[n].fields) :
    LET g == _entities[n].fields[i]
    IN g.name # f => Validate(g.schema, Get(inst, g.name), _entities).errors = {}

\* The latest call validated an object instance against object entity n.
validatedInstance(n) ==
  /\ last.op = "validate"
  /\ last.name = n
  /\ isEntityOf("object", n)
  /\ last.arg.k = "object"

contains(t, sub) ==
  \E i \in 1..(Len(t) - Len(sub) + 1) : SubSeq(t, i, i + Len(sub) - 1) = sub

writtenNames == {writes[i].name : i \in 1..Len(writes)}

(***************************************************************************)
(* C1.  For every compiled object entity and every field of it whose type  *)
(* reference ends with '!', validating an instance in which that field is  *)
(* null or absent (its other fields being valid) fails with the message    *)
(* "<field> is a required field".                                          *)
(***************************************************************************)
C1_RequiredFieldIsRequired ==
  \A n \in DOMAIN _entities :
    validatedInstance(n) =>
      \A i \in 1..Len(typeOf(n).fields) :
        LET f == typeOf(n).fields[i]
        IN (/\ inShape(n, f.name)
            /\ endsWith(f.type, "!")
            /\ Get(last.arg, f.name).k \in {"null", "undefined"}
            /\ othersValid(n, f.name, last.arg))
           => (~last.ok /\ last.error.message = f.name \o " is a required field")

(***************************************************************************)
(* C2.  For every compiled object entity and every field of it whose type  *)
(* reference does not end with '!', validating an instance in which that   *)
(* field is null or undefined (its other fields being valid) succeeds and  *)
(* returns the instance unchanged.                                         *)
(***************************************************************************)
C2_OptionalFieldAcceptsNull ==
  \A n \in DOMAIN _entities :
    validatedInstance(n) =>
      \A i \in 1..Len(typeOf(n).fields) :
        LET f == typeOf(n).fields[i]
        IN (/\ inShape(n, f.name)
            /\ ~endsWith(f.type, "!")
            /\ Get(last.arg, f.name).k \in {"null", "undefined"}
            /\ othersValid(n, f.name, last.arg))
           => (last.ok /\ Norm(last.value) = Norm(last.arg))

(***************************************************************************)
(* C3.  A field f of an object type E is absent from E's compiled shape    *)
(* exactly when the exclude list holds the bare name "f" or the qualified  *)
(* name "E.f": a rule "E.f" leaves f in every other entity, a rule "f"     *)
(* removes f from every entity.                                            *)
(***************************************************************************)
C3_ExcludedExactlyByRule ==
  \A n \in DOMAIN _entities :
    isEntityOf("object", n) =>
      \A i \in 1..Len(typeOf(n).fields) :
        LET f == typeOf(n).fields[i].name
        IN ~inShape(n, f) <=>
             \E r \in 1..Len(excludeFields) :
               excludeFields[r] = f \/ excludeFields[r] = n \o "." \o f

\* Foo.test is excluded from Foo and Test keeps its field test.
C3_Witness ==
  /\ pc = "ready"
  /\ excludeFields = <<"Foo.test">>
  /\ isEntityOf("object", "Foo")
  /\ isEntityOf("object", "Test")
  /\ ~inShape("Foo", "test")
  /\ inShape("Foo", "bar")
  /\ inShape("Test", "test")

(***************************************************************************)
(* C4.  An exclude rule that is the name of an entity (no '.field' part)   *)
(* makes compilation ignore that entity: it is not in the registry.        *)
(***************************************************************************)
C4_EntityRuleIgnoresEntity ==
  pc = "ready" =>
    \A r \in 1..Len(excludeFields) :
      hasType(typeMap, excludeFields[r]) => excludeFields[r] \notin DOMAIN _entities

(***************************************************************************)
(* C5.  getEntity(name) returns the validator the registry holds under     *)
(* name when one was compiled, and otherwise fails with an error whose     *)
(* message contains the name; the registry holds what the constructor      *)
(* wrote, whatever was asked for.                                          *)
(***************************************************************************)
C5_GetEntityOrUnknown ==
  last.op = "getEntity" =>
    /\ DOMAIN _entities = writtenNames
    /\ IF last.name \in writtenNames
       THEN last.ok /\ last.schema = _entities[last.name]
       ELSE ~last.ok /\ contains(last.error.message, last.name)

(***************************************************************************)
(* C6.  Validating v against a union entity succeeds exactly when v is     *)
(* neither null nor undefined and the validator of at least one member     *)
(* entity accepts v; otherwise it fails with the one message "Was not one  *)
(* of <T1>, <T2>, ...", whatever the members rejected v with.              *)
(***************************************************************************)
\* The latest call validated a value against union entity n.
validatedUnion(n) ==
  last.op = "validate" /\ last.name = n /\ isEntityOf("union", n)

\* The entity of member type m, as the registry holds it, accepts v.
memberAccepts(m, v) ==
  m \in DOMAIN _entities /\ Validate(_entities[m], v, _entities).errors = {}

C6_UnionAcceptsSomeMember ==
  \A n \in DOMAIN _entities :
    validatedUnion(n) =>
      LET members == typeOf(n).types
      IN /\ last.ok <=>
              /\ last.arg.k \notin {"null", "undefined"}
              /\ \E i \in 1..Len(members) : memberAccepts(members[i], last.arg)
         /\ ~last.ok =>
              /\ last.error.name = "ValidationError"
              /\ last.error.message = "Was not one of " \o join(members, ", ")

\* A union accepted a value that one of its members rejects.
C6_Witness ==
  \E n \in DOMAIN _entities :
    /\ validatedUnion(n)
    /\ last.ok
    /\ Len(typeOf(n).types) = 2
    /\ \E i \in 1..2 : ~memberAccepts(typeOf(n).types[i], last.arg)

(***************************************************************************)
(* C7.  The entity of an enum type N with declared values v1..vk accepts a *)
(* value exactly when it is undefined or one of v1..vk, and rejects any    *)
(* other value with the message "Enum N must be one of the following       *)
(* values: v1, ..., vk", the values in declaration order.                  *)
(***************************************************************************)
\* The latest call validated a value against enum entity n.
validatedEnum(n) ==
  last.op = "validate" /\ last.name = n /\ isEntityOf("enum", n)

isDeclaredValue(n, v) ==
  v.k = "string" /\ \E i \in 1..Len(typeOf(n).values) : typeOf(n).values[i] = v.s

enumMessageOf(n) ==
  "Enum " \o n \o " must be one of the following values: " \o join(typeOf(n).values, ", ")

C7_EnumAcceptsDeclaredOrUndefined ==
  \A n \in DOMAIN _entities :
    validatedEnum(n) =>
      /\ last.ok <=> (last.arg.k = "undefined" \/ isDeclaredValue(n, last.arg))
      /\ ~last.ok => last.error.message = enumMessageOf(n)

\* C7 as first stated: the entity accepts a value exactly when it is one of
\* v1..vk, and rejects any other value with the message.
C7_EnumAcceptsDeclaredOnly ==
  \A n \in DOMAIN _entities :
    validatedEnum(n) =>
      /\ last.ok <=> isDeclaredValue(n, last.arg)
      /\ ~last.ok => last.error.message = enumMessageOf(n)

\* Enum Color rejected the value 'wrong' with its message.
C7_Witness ==
  /\ validatedEnum("Color")
  /\ last.arg = Str("wrong")
  /\ ~last.ok
  /\ last.error.message = "Enum Color must be one of the following values: red, blue"

(***************************************************************************)
(* C8.  For a field of type Date or DateTime the date test accepts         *)
(* undefined and null (required or not), accepts every Date instance,      *)
(* accepts a string exactly when it parses under one of the formats, and   *)
(* rejects every other value with the message "Invalid date format"; a     *)
(* parse exception is a rejection with that message, never thrown.         *)
(***************************************************************************)
isDateField(f) ==
  namedType(f.type) \in {"Date", "DateTime"} /\ ~startsWith(f.type, "[")

C8_DateTestOfDateFields ==
  \A n \in DOMAIN _entities :
    validatedInstance(n) =>
      \A i \in 1..Len(typeOf(n).fields) :
        LET f == typeOf(n).fields[i]
            x == Get(last.arg, f.name)
        IN (inShape(n, f.name) /\ isDateField(f) /\ othersValid(n, f.name, last.arg)) =>
             /\ last.error.name # "TypeError"
             /\ x.k \in {"null", "undefined"} =>
                  /\ last.error.message # "Invalid date format"
                  /\ ~endsWith(f.type, "!") => last.ok
             /\ x.k = "date" => last.ok
             /\ x.k = "string" => (last.ok <=> MomentParse(x.s) = "valid")
             /\ x.k \in {"number", "boolean", "object", "array"} => ~last.ok
             /\ (x.k \notin {"null", "undefined"} /\ ~last.ok) =>
                  last.error = ValidationError("Invalid date format")

\* A required date field was given a text the parser raises on, and the
\* instance was rejected with the date message.
C8_Witness ==
  /\ validatedInstance("Test")
  /\ typeOf("Test").fields[1].type = "Date!"
  /\ Get(last.arg, "test") = Str(ParserThrowsText)
  /\ last.error = ValidationError("Invalid date format")

(***************************************************************************)
(* C9.  The registry holds no entity named Query, Mutation, String, Int,   *)
(* Float, DateTime or Boolean, nor one whose name begins with '__',        *)
(* whatever the kind of the type of that name.                             *)
(***************************************************************************)
C9_NoBuiltinEntity ==
  \A n \in DOMAIN _entities :
    /\ n \notin {"Query", "Mutation", "String", "Int", "Float", "DateTime", "Boolean"}
    /\ ~startsWith(n, "__")

(***************************************************************************)
(* C10.  The registry is written in the order objects, unions, enums, and  *)
(* when a union is compiled the entity of each of its members is in the    *)
(* registry, so that the member lookup succeeds and nothing is thrown.     *)
(***************************************************************************)
kindRank(kind) == CASE kind = "object" -> 1 [] kind = "union" -> 2 [] OTHER -> 3

C10_OrderAndMembersPresent ==
  /\ \A i, j \in 1..Len(writes) :
       i < j => kindRank(writes[i].kind) <= kindRank(writes[j].kind)
  /\ (pc = "construct" /\ objects = <<>> /\ unions # <<>>) =>
       \A i \in 1..Len(Head(unions).types) : Head(unions).types[i] \in DOMAIN _entities
  /\ pc # "threw"

(***************************************************************************)
(* C11.  A field whose base type is not a known scalar compiles to a       *)
(* deferred validator, and compiling it does not read the registry: the    *)
(* turn of the objects loop succeeds whether or not the named entity is in *)
(* the registry yet.  The name is looked up when validation runs against   *)
(* the field, and a name the registry does not hold then fails with the    *)
(* unknown-entity error of the registry lookup.                            *)
(***************************************************************************)
\* The schema entity n holds for its field f.
schemaOf(n, f) ==
  _entities[n].fields[CHOOSE i \in 1..Len(_entities[n].fields) :
                        _entities[n].fields[i].name = f].schema

\* The deferred validator of a type reference: lazy, inside an array if the
\* reference is one.
deferred(a) ==
  IF a.isArray THEN yup_array_of(yup_lazy(a.type, TRUE)) ELSE yup_lazy(a.type, FALSE)

C11_UnknownIsDeferred ==
  \A n \in DOMAIN _entities :
    isEntityOf("object", n) =>
      \A i \in 1..Len(typeOf(n).fields) :
        LET f == typeOf(n).fields[i]
        IN (inShape(n, f.name) /\ _argType(f.type).isUnknown)
             => schemaOf(n, f.name) = deferred(_argType(f.type))

\* A turn of the objects loop writes the entity and throws nothing.
C11_CompileSucceeds ==
  (pc = "construct" /\ objects # <<>>) =>
    /\ pc' = "construct"
    /\ Head(objects).name \in DOMAIN _entities'
    /\ _entities'[Head(objects).name] = objectEntity(Head(objects), excludeFields)

\* Validating an instance against an entity with a field of a type the
\* registry does not hold fails as getEntity fails for that type.
C11_LookupFailsAtValidation ==
  \A n \in DOMAIN _entities :
    validatedInstance(n) =>
      \A i \in 1..Len(typeOf(n).fields) :
        LET f == typeOf(n).fields[i]
            a == _argType(f.type)
        IN (/\ inShape(n, f.name)
            /\ a.isUnknown
            /\ ~getEntity(_entities, a.type).ok
            /\ othersValid(n, f.name, last.arg))
           => /\ ~last.ok
              /\ last.error.name = "Error"
              /\ last.error.message = NoEntityMessage(a.type)

C11_DeferredLookup ==
  /\ []C11_UnknownIsDeferred
  /\ [][C11_CompileSucceeds]_vars
  /\ []C11_LookupFailsAtValidation

\* An entity was compiled while the type of one of its fields was not in the
\* registry yet (a forward, mutual or self reference), and validation has
\* resolved through that field.
C11_Witness ==
  /\ validatedInstance("Test")
  /\ last.ok
  /\ \E i \in 1..Len(writes) :
       /\ writes[i].name = "Test"
       /\ \E j \in 1..Len(typeOf("Test").fields) :
            LET a == _argType(typeOf("Test").fields[j].type)
            IN /\ a.isUnknown
               /\ inShape("Test", typeOf("Test").fields[j].name)
               /\ \A k \in 1..Len(writes) : writes[k].name = a.type => k >= i
               /\ a.type \in DOMAIN _entities
               /\ Get(last.arg, typeOf("Test").fields[j].name).k = "object"

(***************************************************************************)
(* C12.  For every non-empty type reference, _argType returns isRequired   *)
(* = the reference ends with '!', isArray = the rest, that '!' removed, is *)
(* wrapped in brackets, and a base name got by removing the brackets and   *)
(* one more trailing '!'.  Int and Float give number, Date and DateTime    *)
(* give Date, the primitive names give that primitive in lower case, and   *)
(* any other name is passed through unchanged and flagged unknown.  The    *)
(* empty or undefined argument gives no descriptor.                        *)
(***************************************************************************)
\* The reference with one trailing '!' removed, if it has one.
dropBang(t) == IF Len(t) > 0 /\ SubSeq(t, Len(t), Len(t)) = "!" THEN SubSeq(t, 1, Len(t) - 1) ELSE t

isWrapped(t) ==
  Len(t) >= 2 /\ SubSeq(t, 1, 1) = "[" /\ SubSeq(t, Len(t), Len(t)) = "]"

\* The base name of a reference.
baseName(t) ==
  LET r == dropBang(t)
  IN dropBang(IF isWrapped(r) THEN SubSeq(r, 2, Len(r) - 1) ELSE r)

\* What the call returned agrees with the flags of the reference and with
\* this descriptor of its base name.
returnedFor(type, unknown) ==
  /\ argType.defined
  /\ argType.isRequired = (dropBang(typeRef) # typeRef)
  /\ argType.isArray = isWrapped(dropBang(typeRef))
  /\ argType.type = type
  /\ argType.isUnknown = unknown

\* The primitive names are matched as they are spelled in the switch:
\* String, Boolean and Number.  Any other spelling of them is another name.
C12_ClassifierExactNames ==
  pc = "returned" =>
    LET b == baseName(typeRef)
    IN CASE typeRef = "" -> ~argType.defined
         [] b \in {"Int", "Float"} -> returnedFor("number", FALSE)
         [] b \in {"Date", "DateTime"} -> returnedFor("Date", FALSE)
         [] b = "String" -> returnedFor("string", FALSE)
         [] b = "Boolean" -> returnedFor("boolean", FALSE)
         [] b = "Number" -> returnedFor("number", FALSE)
         [] OTHER -> returnedFor(b, TRUE)

\* C12 as stated: the primitive names are matched whatever their case.
C12_ClassifierAnyCase ==
  pc = "returned" =>
    LET b == baseName(typeRef)
    IN CASE typeRef = "" -> ~argType.defined
         [] b \in {"Int", "Float"} -> returnedFor("number", FALSE)
         [] b \in {"Date", "DateTime"} -> returnedFor("Date", FALSE)
         [] toLowerCase(b) \in {"string", "boolean", "number"} ->
              returnedFor(toLowerCase(b), FALSE)
         [] OTHER -> returnedFor(b, TRUE)

\* A required list of a type whose name is a primitive name in another
\* spelling has been classified.
C12_Witness ==
  /\ pc = "returned"
  /\ argType.isArray
  /\ argType.isRequired
  /\ toLowerCase(baseName(typeRef)) = "string"
  /\ baseName(typeRef) # "String"
  /\ dropBang(typeRef) # typeRef
  /\ isWrapped(dropBang(typeRef))

====
